---- MODULE Spec2Model ----
(***************************************************************************)
(* Lifecycle of the self-hosted runner as managed by the two script        *)
(* revisions of the repository, runner.py and setup-runner.py: the work    *)
(* directory RUNNER_FOLDER with its .pid and .token files, the operating   *)
(* system's process table, and the operations setup, start, stop, remove   *)
(* and clean_up.  The variable rev says which revision is running.         *)
(***************************************************************************)
EXTENDS Integers, Sequences, FiniteSets, TLC

VARIABLES rev, dir, extracted, archive, pidFile, tokenFile, procs, last, io, call

vars == <<rev, dir, extracted, archive, pidFile, tokenFile, procs, last, io, call>>

\* ------------------------------------------------------------------ bounds
\* The operating system hands out the process ids 9 .. LastPid (a window
\* that holds one-digit and two-digit ids).
LastPid == 11
Pids == 9 .. LastPid

\* The pid of init, the parent of every orphaned process; never in a pid file.
InitPid == 1

Revisions == {"runner", "setup_runner"}
Tokens == {"tokA", "tokB"}
Listener == "Runner.Listener"
Shell == "sh"

\* ------------------------------------------------------- the process table
\* A process: its command name and parent, and as bookkeeping whether it was
\* launched from the work directory (ours), whether it belongs to the most
\* recent start (cur), and whether it is a launcher shell whose run.sh has
\* yet to fork its listener (pending).
Dead == [alive |-> FALSE, name |-> "", ppid |-> 0, ours |-> FALSE,
         cur |-> FALSE, pending |-> FALSE]

Alive(pt, p) == p \in DOMAIN pt /\ pt[p].alive

\* A process ends (it exits or is killed): its children are adopted by init.
Reap(pt, p) ==
  [q \in DOMAIN pt |->
     IF q = p THEN Dead
     ELSE IF pt[q].alive /\ pt[q].ppid = p THEN [pt[q] EXCEPT !.ppid = InitPid]
     ELSE pt[q]]

\* find_child_search's "not found", and the marker of an exception that
\* leaves a process query.
NotFound == 0
Raised == -1

\* ps -p pid -o comm=: the name, or NotFound for a pid that denotes no
\* process.  setup-runner.py lets check_output's CalledProcessError escape.
find_process_name(rv, pt, pid) ==
  IF Alive(pt, pid) THEN pt[pid].name
  ELSE IF rv = "runner" THEN "" ELSE "CalledProcessError"

\* pgrep -P pid: the live children, in ascending pid order.
RECURSIVE Ascending(_)
Ascending(S) ==
  IF S = {} THEN <<>>
  ELSE LET m == CHOOSE x \in S : \A y \in S : x <= y
       IN <<m>> \o Ascending(S \ {m})

find_child_processes(pt, pid) ==
  Ascending({q \in DOMAIN pt : pt[q].alive /\ pt[q].ppid = pid})

\* The search with 'queue = find_child_processes(cur_pid)' for queue.extend:
\* the pids still waiting in the queue are forgotten.
RECURSIVE Search_forgets_queue(_, _, _, _, _, _)
Search_forgets_queue(rv, pt, queue, child_name, queried, exits) ==
  IF queue = <<>> THEN [res |-> NotFound, queried |-> queried, procs |-> pt]
  ELSE LET cur_pid == Head(queue)
           now == IF cur_pid \in exits THEN Reap(pt, cur_pid) ELSE pt
           name == find_process_name(rv, now, cur_pid)
           asked == queried \cup {cur_pid}
       IN IF name = "CalledProcessError"
          THEN [res |-> Raised, queried |-> asked, procs |-> now]
          ELSE IF name = child_name
               THEN [res |-> cur_pid, queried |-> asked, procs |-> now]
               ELSE Search_forgets_queue(rv, now,
                                         find_child_processes(now, cur_pid),
                                         child_name, asked, exits)

\* The search with the children put in front of the queue: depth first.
RECURSIVE Search_depth_first(_, _, _, _, _, _)
Search_depth_first(rv, pt, queue, child_name, queried, exits) ==
  IF queue = <<>> THEN [res |-> NotFound, queried |-> queried, procs |-> pt]
  ELSE LET cur_pid == Head(queue)
           now == IF cur_pid \in exits THEN Reap(pt, cur_pid) ELSE pt
           name == find_process_name(rv, now, cur_pid)
           asked == queried \cup {cur_pid}
       IN IF name = "CalledProcessError"
          THEN [res |-> Raised, queried |-> asked, procs |-> now]
          ELSE IF name = child_name
               THEN [res |-> cur_pid, queried |-> asked, procs |-> now]
               ELSE Search_depth_first(rv, now,
                                       find_child_processes(now, cur_pid) \o Tail(queue),
                                       child_name, asked, exits)

\* The level-order search: res is the pid found, NotFound or Raised,
\* queried the pids whose name was asked for and procs the table it ends
\* on.  The processes in exits end while they wait in the queue, just
\* before their name is asked for.
RECURSIVE Search(_, _, _, _, _, _)
Search(rv, pt, queue, child_name, queried, exits) ==
  IF queue = <<>> THEN [res |-> NotFound, queried |-> queried, procs |-> pt]
  ELSE LET cur_pid == Head(queue)
           now == IF cur_pid \in exits THEN Reap(pt, cur_pid) ELSE pt
           name == find_process_name(rv, now, cur_pid)
           asked == queried \cup {cur_pid}
       IN IF name = "CalledProcessError"
          THEN [res |-> Raised, queried |-> asked, procs |-> now]
          ELSE IF name = child_name
               THEN [res |-> cur_pid, queried |-> asked, procs |-> now]
               ELSE Search(rv, now,
                           Tail(queue) \o find_child_processes(now, cur_pid),
                           child_name, asked, exits)

\* A search during which no process ends.
find_child_search(rv, pt, pid, child_name) ==
  Search(rv, pt, <<pid>>, child_name, {}, {})

\* ------------------------------------------------------ the persisted files
NoFile == [exists |-> FALSE, content |-> <<>>]
File(c) == [exists |-> TRUE, content |-> c]

\* The digits of a pid written lowest first.
RECURSIVE str_reversed(_)
str_reversed(n) ==
  IF n < 10 THEN <<n>> ELSE <<n % 10>> \o str_reversed(n \div 10)

\* f'{pid}': the decimal digits of a pid.
RECURSIVE str(_)
str(n) == IF n < 10 THEN <<n>> ELSE str(n \div 10) \o <<n % 10>>

\* int(pid_str) of a non-empty digit string.
RECURSIVE int(_)
int(s) == IF Len(s) = 1 THEN s[1]
          ELSE 10 * int(SubSeq(s, 1, Len(s) - 1)) + s[Len(s)]

\* What stop makes of .pid: no pid for a file that is missing or empty,
\* int of its content otherwise.
read_pid(file) ==
  IF ~file.exists THEN NotFound
  ELSE IF file.content = <<>> THEN NotFound
  ELSE int(file.content)

\* ------------------------------------------------- one run of an operation
\* The state an operation works on, with what it has done so far: log is the
\* order of its steps ("exit_nonzero" after a vendor command that failed),
\* kills the pids os.kill was called with, sig the processes that received
\* SIGKILL, queried the pids asked about, token the
\* token handed to config.sh, result "ok" or the exception that ended it,
\* failed the install command that exited nonzero and named the one the
\* exception's message names (NotFound: none), cwd the working directory:
\* "top", where the script was started, or "work", the work directory.
Begin ==
  [dir |-> dir, extracted |-> extracted, archive |-> archive,
   pidFile |-> pidFile,
   tokenFile |-> tokenFile, procs |-> procs,
   log |-> <<>>, kills |-> {}, sig |-> {}, queried |-> {}, raced |-> FALSE,
   token |-> "", result |-> "ok", failed |-> NotFound, named |-> NotFound,
   cwd |-> "top", chdirs |-> <<>>]

\* os.path.exists(RUNNER_FOLDER): the path is relative, so it names the work
\* directory from the directory the script was started in only.
RunnerFolder(r) == r.cwd = "top" /\ r.dir

\* with Chdir(RUNNER_FOLDER): __init__ keeps os.getcwd() and __enter__ changes
\* into the folder; chdirs are the directories changed to, in order.
Chdir_enter(r) == [r EXCEPT !.cwd = "work", !.chdirs = Append(@, "work")]

\* A context manager that goes back only when the block ends without an
\* exception.
Chdir_exit_unless_raised(old, r) ==
  IF r.result # "ok" THEN r
  ELSE [r EXCEPT !.cwd = old.cwd, !.chdirs = Append(@, old.cwd)]

\* __exit__, run however the block is left (its end, a return, an
\* exception): back to the directory old was in.
Chdir_exit(old, r) == [r EXCEPT !.cwd = old.cwd, !.chdirs = Append(@, old.cwd)]

Signalled(pt, p) ==
  [pid |-> p, name |-> pt[p].name, ours |-> pt[p].ours, cur |-> pt[p].cur]

\* os.kill without the except clause: ProcessLookupError reaches the caller.
os_kill_unguarded(r, pid, gone) ==
  IF Alive(r.procs, pid) /\ ~gone
  THEN [r EXCEPT !.procs = Reap(@, pid), !.kills = @ \cup {pid},
                 !.sig = @ \cup {Signalled(r.procs, pid)}]
  ELSE [r EXCEPT !.procs = Reap(@, pid), !.kills = @ \cup {pid},
                 !.raced = Alive(r.procs, pid), !.result = "ProcessLookupError"]

\* try: os.kill(pid, signal.SIGKILL) / except ProcessLookupError: pass.
\* gone: the process exited between the search and the signal.
os_kill(r, pid, gone) ==
  IF Alive(r.procs, pid) /\ ~gone
  THEN [r EXCEPT !.procs = Reap(@, pid), !.kills = @ \cup {pid},
                 !.sig = @ \cup {Signalled(r.procs, pid)}]
  ELSE [r EXCEPT !.procs = Reap(@, pid), !.kills = @ \cup {pid},
                 !.raced = Alive(r.procs, pid)]

\* stop_runner emptying the pid file once it has signalled the listener.
stop_runner_clears_pid(r, gone) ==
  IF r.result # "ok" THEN r
  ELSE IF ~RunnerFolder(r) THEN [r EXCEPT !.result = "AssertionError"]
  ELSE LET r1 == [Chdir_enter(r) EXCEPT !.log = Append(@, "stop")]
       IN Chdir_exit(r, IF ~r.pidFile.exists THEN r1
          ELSE IF r.pidFile.content = <<>> THEN r1
          ELSE LET s == find_child_search("runner", r.procs,
                                          int(r.pidFile.content), Listener)
                   r2 == [r1 EXCEPT !.queried = @ \cup s.queried]
               IN IF s.res = NotFound THEN r2
                  ELSE IF s.res = Raised
                       THEN [r2 EXCEPT !.result = "CalledProcessError"]
                       ELSE [os_kill(r2, s.res, gone) EXCEPT !.pidFile = File(<<>>)])

\* runner.py stop_runner.
stop_runner(r, gone) ==
  IF r.result # "ok" THEN r
  ELSE IF ~RunnerFolder(r) THEN [r EXCEPT !.result = "AssertionError"]
  ELSE LET r1 == [Chdir_enter(r) EXCEPT !.log = Append(@, "stop")]
       IN Chdir_exit(r, IF ~r.pidFile.exists THEN r1
          ELSE IF r.pidFile.content = <<>> THEN r1
          ELSE LET s == find_child_search("runner", r.procs,
                                          int(r.pidFile.content), Listener)
                   r2 == [r1 EXCEPT !.queried = @ \cup s.queried]
               IN IF s.res = NotFound THEN r2
                  ELSE IF s.res = Raised
                       THEN [r2 EXCEPT !.result = "CalledProcessError"]
                       ELSE os_kill(r2, s.res, gone))

\* stop_old_runner without its test for an empty pid file: int('') raises.
stop_old_runner_no_empty_test(r) ==
  IF r.result # "ok" THEN r
  ELSE IF ~RunnerFolder(r) THEN [r EXCEPT !.result = "AssertionError"]
  ELSE LET r1 == [Chdir_enter(r) EXCEPT !.log = Append(@, "stop")]
       IN Chdir_exit(r, IF ~r.pidFile.exists THEN r1
          ELSE IF r.pidFile.content = <<>> THEN [r1 EXCEPT !.result = "ValueError"]
          ELSE os_kill(r1, int(r.pidFile.content), FALSE))

\* stop_old_runner taking a missing folder for a runner that is not running.
stop_old_runner_absent_ok(r) ==
  IF r.result # "ok" THEN r
  ELSE IF ~RunnerFolder(r) THEN r
  ELSE LET r1 == [Chdir_enter(r) EXCEPT !.log = Append(@, "stop")]
       IN Chdir_exit(r, IF ~r.pidFile.exists THEN r1
          ELSE IF r.pidFile.content = <<>> THEN r1
          ELSE os_kill(r1, int(r.pidFile.content), FALSE))

\* setup-runner.py stop_old_runner.
stop_old_runner(r) ==
  IF r.result # "ok" THEN r
  ELSE IF ~RunnerFolder(r) THEN [r EXCEPT !.result = "AssertionError"]
  ELSE LET r1 == [Chdir_enter(r) EXCEPT !.log = Append(@, "stop")]
       IN Chdir_exit(r, IF ~r.pidFile.exists THEN r1
          ELSE IF r.pidFile.content = <<>> THEN r1
          ELSE os_kill(r1, int(r.pidFile.content), FALSE))

stop(rv, r, gone) ==
  IF rv = "runner" THEN stop_runner(r, gone) ELSE stop_old_runner(r)

\* shutil.rmtree(RUNNER_FOLDER): the folder goes with everything in it.
rmtree(r) ==
  IF ~RunnerFolder(r) THEN [r EXCEPT !.result = "FileNotFoundError"]
  ELSE
  [r EXCEPT !.dir = FALSE, !.extracted = FALSE, !.archive = FALSE,
            !.pidFile = NoFile,
            !.tokenFile = NoFile, !.log = Append(@, "rmtree")]

\* remove_runner running config.sh remove a second time when the first
\* exits nonzero.
remove_runner_retries(r, token, rc) ==
  IF r.result # "ok" THEN r
  ELSE IF ~RunnerFolder(r) THEN [r EXCEPT !.result = "AssertionError"]
  ELSE IF r.extracted
       THEN LET r1 == [Chdir_enter(r) EXCEPT !.log = Append(@, "config_remove"),
                                             !.token = token]
            IN IF rc # 0
               THEN Chdir_exit(r,
                      [r1 EXCEPT !.result = "removal_exception",
                                 !.log = @ \o <<"exit_nonzero", "config_remove",
                                                "exit_nonzero">>])
               ELSE rmtree(Chdir_exit(r, r1))
       ELSE rmtree(Chdir_exit(r, Chdir_enter(r)))

\* remove_runner deleting the folder whatever config.sh remove answers.
remove_runner_deletes_first(r, token, rc) ==
  IF r.result # "ok" THEN r
  ELSE IF ~RunnerFolder(r) THEN [r EXCEPT !.result = "AssertionError"]
  ELSE IF r.extracted
       THEN LET r1 == rmtree(Chdir_exit(r,
                        [Chdir_enter(r) EXCEPT !.log = Append(@, "config_remove"),
                                               !.token = token]))
            IN IF rc # 0 THEN [r1 EXCEPT !.result = "removal_exception",
                                         !.log = Append(@, "exit_nonzero")]
               ELSE r1
       ELSE rmtree(Chdir_exit(r, Chdir_enter(r)))

\* remove_runner without its test that config.sh is there: subprocess.run
\* raises for a command that does not exist.
remove_runner_no_config_test(r, token, rc) ==
  IF r.result # "ok" THEN r
  ELSE IF ~RunnerFolder(r) THEN [r EXCEPT !.result = "AssertionError"]
  ELSE LET r1 == [Chdir_enter(r) EXCEPT !.log = Append(@, "config_remove"),
                                        !.token = token]
       IN IF ~r.extracted
          THEN Chdir_exit(r, [r1 EXCEPT !.result = "FileNotFoundError"])
          ELSE IF rc # 0
               THEN Chdir_exit(r, [r1 EXCEPT !.result = "removal_exception",
                                             !.log = Append(@, "exit_nonzero")])
          ELSE rmtree(Chdir_exit(r, r1))

\* runner.py remove_runner(token); rc is the exit code of config.sh remove.
remove_runner(r, token, rc) ==
  IF r.result # "ok" THEN r
  ELSE IF ~RunnerFolder(r) THEN [r EXCEPT !.result = "AssertionError"]
  ELSE IF r.extracted
       THEN LET r1 == [Chdir_enter(r) EXCEPT !.log = Append(@, "config_remove"),
                                             !.token = token]
            IN IF rc # 0
               THEN Chdir_exit(r, [r1 EXCEPT !.result = "removal_exception",
                                             !.log = Append(@, "exit_nonzero")])
               ELSE rmtree(Chdir_exit(r, r1))
       ELSE rmtree(Chdir_exit(r, Chdir_enter(r)))

\* setup-runner.py remove_old_runner(): the token comes from .token, and the
\* folder stays.  Without config.sh the shell's exit code is not 0.
remove_old_runner(r, rc) ==
  IF r.result # "ok" THEN r
  ELSE IF ~RunnerFolder(r) THEN [r EXCEPT !.result = "AssertionError"]
  ELSE Chdir_exit(r,
         IF ~r.tokenFile.exists THEN Chdir_enter(r)
         ELSE IF r.tokenFile.content = "" THEN Chdir_enter(r)
         ELSE LET r1 == [Chdir_enter(r) EXCEPT
                           !.log = Append(@, "config_remove"),
                           !.token = r.tokenFile.content]
              IN IF rc # 0 \/ ~r.extracted
                 THEN [r1 EXCEPT !.result = "removal_exception",
                                 !.log = Append(@, "exit_nonzero")]
                 ELSE r1)

remove(rv, r, token, rc) ==
  IF rv = "runner" THEN remove_runner(r, token, rc) ELSE remove_old_runner(r, rc)

\* clean_up taking a missing folder for one that is clean already.
clean_up_absent_ok(rv, r, token, rc, gone) ==
  IF ~RunnerFolder(r) THEN r
  ELSE IF rv = "runner"
       THEN remove_runner(stop_runner(r, gone), token, rc)
       ELSE LET r1 == stop_old_runner(remove_old_runner(r, rc))
            IN IF r1.result # "ok" THEN r1 ELSE rmtree(r1)

\* clean_up: runner.py stops and then removes; setup-runner.py removes,
\* stops and deletes the folder.
clean_up(rv, r, token, rc, gone) ==
  IF ~RunnerFolder(r) THEN [r EXCEPT !.result = "Exception"]
  ELSE IF rv = "runner"
       THEN remove_runner(stop_runner(r, gone), token, rc)
       ELSE LET r1 == stop_old_runner(remove_old_runner(r, rc))
            IN IF r1.result # "ok" THEN r1 ELSE rmtree(r1)

\* The number of commands in INSTALLATION, and the one that unpacks
\* config.sh and run.sh (tar xzf, the third in both revisions).
InstallSteps(rv) == IF rv = "runner" THEN 4 ELSE 3
TarStep == 3
\* curl -o, the first command, downloads the archive; a curl that fails
\* before it receives anything leaves no file.  The fourth command of
\* runner.py deletes the archive again.
CurlStep == 1

RECURSIVE Repeat(_, _)
Repeat(x, n) == IF n = 0 THEN <<>> ELSE Append(Repeat(x, n - 1), x)

\* The flags get_flags hands to setup, in the order of the parser's options.
Flags(token) ==
  [token |-> token, url |-> "https://github.com/diku-dk/futhark",
   name |-> "futhark01", labels |-> "A100,cuda,opencl,multicore"]

\* format_flags: '--key value' for every flag, as the words of the command.
format_flags(flags) ==
  <<"--token", flags.token, "--url", flags.url, "--name", flags.name,
    "--labels", flags.labels>>

\* The value config.sh reads for an option: the word after it.
Option(argv, opt) ==
  LET at == {i \in 1 .. Len(argv) - 1 : argv[i] = opt}
  IN IF at = {} THEN "" ELSE argv[(CHOOSE i \in at : \A j \in at : i <= j) + 1]

\* os.mkdir and, inside the folder, the install commands one after the other;
\* the first that exits nonzero ends them: ran of them have run when command
\* fail fails.
Installed(rv, r, fail) ==
  LET n == InstallSteps(rv)
      ran == IF fail = 0 \/ fail > n THEN n ELSE fail
  IN [Chdir_enter(r) EXCEPT !.dir = TRUE,
               !.extracted = (fail = 0 \/ fail > TarStep),
               !.archive = (fail # CurlStep /\ (rv = "runner" => fail \in 1 .. n)),
               !.log = @ \o <<"mkdir">> \o Repeat("install", ran)]

\* setup writing the runner's name where the token belongs.
setup_writes_name(rv, r, flags, fail) ==
  IF RunnerFolder(r) THEN [r EXCEPT !.result = "AssertionError"]
  ELSE LET r1 == Installed(rv, r, fail)
       IN Chdir_exit(r, IF fail \in 1 .. InstallSteps(rv)
          THEN [r1 EXCEPT !.result = "install_exception", !.failed = fail,
                          !.named = NotFound, !.log = Append(@, "exit_nonzero")]
          ELSE LET config_command ==
                     <<"./config.sh", "--unattended">> \o format_flags(flags)
                   r2 == [r1 EXCEPT !.log = Append(@, "config"),
                                    !.token = Option(config_command, "--token")]
               IN IF fail # 0 THEN [r2 EXCEPT !.result = "config_exception",
                                  !.log = Append(@, "exit_nonzero")]
                  ELSE [r2 EXCEPT !.tokenFile = File(flags.name),
                                  !.log = Append(@, "write_token")])

\* setup writing the token before it looks at config.sh's exit code.
setup_token_before_config(rv, r, flags, fail) ==
  IF RunnerFolder(r) THEN [r EXCEPT !.result = "AssertionError"]
  ELSE LET r1 == Installed(rv, r, fail)
       IN Chdir_exit(r, IF fail \in 1 .. InstallSteps(rv)
          THEN [r1 EXCEPT !.result = "install_exception", !.failed = fail,
                          !.named = NotFound, !.log = Append(@, "exit_nonzero")]
          ELSE LET config_command ==
                     <<"./config.sh", "--unattended">> \o format_flags(flags)
                   r2 == [r1 EXCEPT !.log = @ \o <<"config", "write_token">>,
                                    !.token = Option(config_command, "--token"),
                                    !.tokenFile = File(flags.token)]
               IN IF fail # 0 THEN [r2 EXCEPT !.result = "config_exception",
                                  !.log = Append(@, "exit_nonzero")]
                  ELSE r2)

\* setup running every install command and raising for a failed one at the
\* end.
setup_continues_install(rv, r, flags, fail) ==
  IF RunnerFolder(r) THEN [r EXCEPT !.result = "AssertionError"]
  ELSE LET r1 == Installed(rv, r, fail)
       IN Chdir_exit(r, IF fail \in 1 .. InstallSteps(rv)
          THEN [r1 EXCEPT !.result = "install_exception", !.failed = fail,
                          !.named = NotFound,
                          !.log = r.log \o <<"mkdir">>
                                   \o Repeat("install", InstallSteps(rv))
                                   \o <<"exit_nonzero">>]
          ELSE LET config_command ==
                     <<"./config.sh", "--unattended">> \o format_flags(flags)
                   r2 == [r1 EXCEPT !.log = Append(@, "config"),
                                    !.token = Option(config_command, "--token")]
               IN IF fail # 0 THEN [r2 EXCEPT !.result = "config_exception",
                                  !.log = Append(@, "exit_nonzero")]
                  ELSE [r2 EXCEPT !.tokenFile = File(flags.token),
                                  !.log = Append(@, "write_token")])

\* setup without its assert that the folder is not there.
setup_unchecked(rv, r, flags, fail) ==
  LET r1 == Installed(rv, r, fail)
  IN Chdir_exit(r, IF fail \in 1 .. InstallSteps(rv)
     THEN [r1 EXCEPT !.result = "install_exception", !.failed = fail,
                     !.named = NotFound, !.log = Append(@, "exit_nonzero")]
     ELSE LET config_command ==
                <<"./config.sh", "--unattended">> \o format_flags(flags)
              r2 == [r1 EXCEPT !.log = Append(@, "config"),
                               !.token = Option(config_command, "--token")]
          IN IF fail # 0 THEN [r2 EXCEPT !.result = "config_exception",
                                  !.log = Append(@, "exit_nonzero")]
             ELSE [r2 EXCEPT !.tokenFile = File(flags.token),
                             !.log = Append(@, "write_token")])

\* setup(flags): fail = 0 when every command exits 0, k when install command
\* k exits nonzero, InstallSteps + 1 when config.sh does.  The message of
\* install_exception is fixed before any command runs and names none.
setup(rv, r, flags, fail) ==
  IF RunnerFolder(r) THEN [r EXCEPT !.result = "AssertionError"]
  ELSE LET r1 == Installed(rv, r, fail)
       IN Chdir_exit(r, IF fail \in 1 .. InstallSteps(rv)
          THEN [r1 EXCEPT !.result = "install_exception", !.failed = fail,
                          !.named = NotFound, !.log = Append(@, "exit_nonzero")]
          ELSE LET config_command ==
                     <<"./config.sh", "--unattended">> \o format_flags(flags)
                   r2 == [r1 EXCEPT !.log = Append(@, "config"),
                                    !.token = Option(config_command, "--token")]
               IN IF fail # 0 THEN [r2 EXCEPT !.result = "config_exception",
                                  !.log = Append(@, "exit_nonzero")]
                  ELSE [r2 EXCEPT !.tokenFile = File(flags.token),
                                  !.log = Append(@, "write_token")])

\* subprocess.Popen('./run.sh > ../log-<date>.txt', shell=True): the launcher
\* shell gets pid p and is the one process of the most recent start.
Popen(pt, p, hasRunSh) ==
  [x \in DOMAIN pt |->
     IF x = p
     THEN [alive |-> TRUE, name |-> Shell, ppid |-> InitPid, ours |-> TRUE,
           cur |-> TRUE, pending |-> hasRunSh]
     ELSE IF pt[x].alive THEN [pt[x] EXCEPT !.cur = FALSE] ELSE pt[x]]

\* run.sh, running under launcher l, forks the listener as pid q.
Fork(pt, l, q) ==
  [pt EXCEPT ![l].pending = FALSE,
             ![q] = [alive |-> TRUE, name |-> Listener, ppid |-> l,
                     ours |-> TRUE, cur |-> pt[l].cur, pending |-> FALSE]]

\* What ps prints for a child that has exited and that start has not waited
\* for.
Defunct == "sh <defunct>"

\* time.sleep(1): what the launcher has done when the grace period ends.
\* Without run.sh the shell has exited, and stays in the process table as
\* long as start holds p; otherwise run.sh has forked the listener as pid q,
\* or (q = NotFound) has not forked it yet.
Grace(pt, p, q) ==
  IF ~pt[p].pending THEN [pt EXCEPT ![p].name = Defunct]
  ELSE IF q = NotFound THEN pt
  ELSE Fork(pt, p, q)

\* start returns and p goes: a launcher that has exited leaves the table.
Collect(pt, p) == IF pt[p].name = Defunct THEN Reap(pt, p) ELSE pt

\* The write with an unbuffered file, one character at a time: the file
\* holds the first digit before it holds the pid.
write_pid_unbuffered(r, pid, intr) ==
  IF intr THEN [r EXCEPT !.pidFile = File(SubSeq(str(pid), 1, 1)),
                         !.result = "KeyboardInterrupt"]
  ELSE [r EXCEPT !.pidFile = File(str(pid)), !.log = Append(@, "write_pid")]

\* with open('.pid', 'w') as fp: fp.write(f'{pid}'); open truncates the
\* file, and an interrupt before the write leaves it empty.  The digits
\* stay in fp's buffer until the with block closes the file, which hands
\* them to the file in one write.
write_pid(r, pid, intr) ==
  IF intr THEN [r EXCEPT !.pidFile = File(<<>>), !.result = "KeyboardInterrupt"]
  ELSE [r EXCEPT !.pidFile = File(str(pid)), !.log = Append(@, "write_pid")]

\* start() after its stop: runner.py records the launcher's pid,
\* setup-runner.py the pid its search finds, if it finds one.
launch(rv, r, p, q, intr) ==
  IF r.result # "ok" THEN r
  ELSE IF ~RunnerFolder(r) THEN [r EXCEPT !.result = "AssertionError"]
  ELSE LET pt == Grace(Popen(r.procs, p, r.extracted), p, q)
           r1 == [Chdir_enter(r) EXCEPT !.procs = Collect(pt, p), !.log = Append(@, "launch")]
       IN Chdir_exit(r, IF rv = "runner" THEN write_pid(r1, p, intr)
          ELSE LET s == find_child_search(rv, pt, p, Listener)
                   r2 == [r1 EXCEPT !.queried = @ \cup s.queried,
                                    !.log = Append(@, "search")]
               IN IF s.res = Raised
                  THEN [r2 EXCEPT !.result = "CalledProcessError"]
                  ELSE IF s.res = NotFound THEN r2
                  ELSE write_pid(r2, s.res, intr))

start(rv, r, gone, p, q, intr) == launch(rv, stop(rv, r, gone), p, q, intr)

\* runner.py main, --start and --kill: without the folder it raises and
\* calls nothing; setup-runner.py main calls start() as it is.
main_guard(rv, r) ==
  IF rv = "runner" /\ ~RunnerFolder(r) THEN [r EXCEPT !.result = "Exception"] ELSE r

\* What --remove gets from a caller that has no token to give.
NoToken == ""

\* Whether a run has taken a step.
Ran(log, step) == \E i \in DOMAIN log : log[i] = step

\* len(os.listdir(RUNNER_FOLDER)) == 0: nothing downloaded, unpacked or
\* written in the folder.
Empty(r) ==
  ~r.extracted /\ ~r.archive /\ ~r.pidFile.exists /\ ~r.tokenFile.exists

\* os.rmdir(RUNNER_FOLDER).
rmdir(r) == [r EXCEPT !.dir = FALSE, !.log = Append(@, "rmdir")]

\* main going on to setup whatever is in the folder.
main_setup_no_empty_test(rv, r, flags, fail, answer, rc) ==
  IF rv = "runner"
  THEN setup(rv, r, flags, fail)
  ELSE IF RunnerFolder(r)
       THEN IF ~answer THEN r
            ELSE LET r1 == clean_up(rv, r, NoToken, rc, FALSE)
                 IN IF r1.result # "ok" THEN r1 ELSE setup(rv, r1, flags, fail)
       ELSE setup(rv, r, flags, fail)

\* main without an action flag, up to the return of setup.  runner.py
\* removes an empty folder and raises for any other; setup-runner.py asks
\* whether the old runner may go (answer), returns on a no and cleans up on
\* a yes.
main_setup(rv, r, flags, fail, answer, rc) ==
  IF rv = "runner"
  THEN IF RunnerFolder(r) /\ Empty(r) THEN setup(rv, rmdir(r), flags, fail)
       ELSE IF RunnerFolder(r) THEN [r EXCEPT !.result = "Exception"]
       ELSE setup(rv, r, flags, fail)
  ELSE IF RunnerFolder(r)
       THEN IF ~answer THEN r
            ELSE LET r1 == clean_up(rv, r, NoToken, rc, FALSE)
                 IN IF r1.result # "ok" THEN r1 ELSE setup(rv, r1, flags, fail)
       ELSE setup(rv, r, flags, fail)

\* main without an action flag: start() follows a setup that has returned.
main(rv, r, flags, fail, answer, rc, p, q, intr) ==
  LET r1 == main_setup(rv, r, flags, fail, answer, rc)
  IN IF r1.result # "ok" \/ ~Ran(r1.log, "write_token") THEN r1
     ELSE start(rv, r1, FALSE, p, q, intr)

\* --------------------------------------------------------------- the state
\* io follows one write of .pid by start, step by step, with a reader of the
\* file beside it: pos is where the write is, pid the pid it writes, prev
\* the file it found, readAt where the write was when the reader read, seen
\* the file as the reader found it and parsed the pid it made of it.
IoIdle ==
  [pos |-> "idle", pid |-> NotFound, prev |-> NoFile, readAt |-> "none",
   seen |-> NoFile, parsed |-> NotFound]

\* call is a function of the scripts applied on its own: its name, its
\* arguments and what it returned or raised.
NoCall == [fn |-> "none"]

\* last is the outcome of the operation the script is running, until the
\* script exits; between two runs it only says whether the run before was a
\* stop that returned ("stopped"), a setup that returned ("installed") or a
\* setup that an install command ended before config.sh was unpacked
\* ("install_failed"), with no step of the environment since.
Idle(op) ==
  [op |-> op, result |-> "ok", log |-> <<>>, kills |-> {}, sig |-> {},
   queried |-> {}, raced |-> FALSE, token |-> "", failed |-> NotFound,
   named |-> NotFound,
   launched |-> NotFound, found |-> NotFound, recorded |-> FALSE,
   repeat |-> FALSE, fresh |-> FALSE, follows |-> "idle", wasDir |-> FALSE,
   wasToken |-> "", changed |-> FALSE, touched |-> FALSE, cwd |-> "top",
   chdirs |-> <<>>, wasEmpty |-> FALSE]

Init ==
  /\ rev \in Revisions
  /\ dir = FALSE
  /\ extracted = FALSE
  /\ archive = FALSE
  /\ pidFile = NoFile
  /\ tokenFile = NoFile
  /\ procs = [p \in Pids |-> Dead]
  /\ last = Idle("idle")
  /\ io = IoIdle
  /\ call = NoCall

\* No run of the script is under way.
Ready == last.op \in {"idle", "stopped", "installed", "install_failed"}

\* The operation op ends as the run r.  launched is the launcher's pid and
\* found what a search from it finds when the grace period ends; recorded
\* says whether the pid file the operation was invoked on named a live
\* process, repeat whether the operation directly follows a stop, fresh
\* whether it directly follows a setup that succeeded, wasDir and wasToken
\* the folder and the token file it was invoked on, follows what the run
\* before was, changed whether it changed the folder or the process table
\* and touched whether it changed the folder, wasEmpty whether the folder it
\* was invoked on was there and empty.
Return(op, r, p, found) ==
  /\ Ready
  /\ dir' = r.dir
  /\ extracted' = r.extracted
  /\ archive' = r.archive
  /\ pidFile' = r.pidFile
  /\ tokenFile' = r.tokenFile
  /\ procs' = r.procs
  /\ rev' = rev
  /\ UNCHANGED <<io, call>>
  /\ last' = [op |-> op, result |-> r.result, log |-> r.log, kills |-> r.kills,
              sig |-> r.sig, queried |-> r.queried, raced |-> r.raced,
              token |-> r.token, failed |-> r.failed, named |-> r.named,
              launched |-> p,
              found |-> found,
              recorded |-> (pidFile.exists /\ pidFile.content # <<>>
                            /\ Alive(procs, int(pidFile.content))),
              repeat |-> (last.op = "stopped"),
              fresh |-> (last.op = "installed"),
              follows |-> last.op,
              wasDir |-> dir,
              wasToken |-> IF tokenFile.exists THEN tokenFile.content ELSE "",
              changed |-> (<<r.dir, r.extracted, r.archive, r.pidFile,
                             r.tokenFile, r.procs>>
                           # <<dir, extracted, archive, pidFile, tokenFile,
                               procs>>),
              touched |-> (<<r.dir, r.extracted, r.archive, r.pidFile,
                             r.tokenFile>>
                           # <<dir, extracted, archive, pidFile, tokenFile>>),
              cwd |-> r.cwd, chdirs |-> r.chdirs,
              wasEmpty |-> (dir /\ Empty(Begin))]

Free(pt) == {p \in DOMAIN pt : ~pt[p].alive}

\* The inputs that make a difference in the current state: the token and
\* the exit codes where a vendor command runs, the race where stop_runner
\* is about to signal a process.
Races ==
  IF rev = "runner" /\ stop(rev, Begin, FALSE).sig # {} THEN BOOLEAN ELSE {FALSE}
Fails == IF dir THEN {0} ELSE 0 .. InstallSteps(rev) + 1
ExitCodes == IF dir /\ extracted THEN {0, 1} ELSE {0}
SetupTokens == IF dir THEN {"tokA"} ELSE Tokens
RemoveTokens ==
  IF rev = "runner" /\ dir /\ extracted THEN Tokens \cup {NoToken} ELSE {"tokA"}

\* ----------------------------------------------------------- the operations
Setup ==
  \E token \in SetupTokens, fail \in Fails :
    Return("setup", setup(rev, Begin, Flags(token), fail), NotFound, NotFound)

Stop ==
  \E gone \in Races :
    Return("stop", stop(rev, main_guard(rev, Begin), gone), NotFound, NotFound)

Remove ==
  \E token \in RemoveTokens, rc \in ExitCodes :
    Return("remove", remove(rev, Begin, token, rc), NotFound, NotFound)

CleanUp ==
  \E token \in RemoveTokens, rc \in ExitCodes, gone \in Races :
    Return("clean", clean_up(rev, Begin, token, rc, gone), NotFound, NotFound)

Start ==
  \E gone \in Races, intr \in BOOLEAN :
    LET r0 == stop(rev, main_guard(rev, Begin), gone)
    IN IF r0.result # "ok" THEN Return("start", r0, NotFound, NotFound)
       ELSE \E p \in Free(r0.procs) :
              \E q \in (Free(r0.procs) \ {p}) \cup {NotFound} :
                LET r1 == launch(rev, r0, p, q, intr)
                IN Return("start", r1, p,
                          find_child_search("runner", r1.procs, p, Listener).res)

\* The script without an action flag: install and start.  The inputs are
\* those that make a difference: the exit codes where setup is reached, the
\* answer where setup-runner.py asks, the pids where start is reached.
MainFails ==
  IF rev = "runner" /\ dir /\ ~Empty(Begin) THEN {0}
  ELSE 0 .. InstallSteps(rev) + 1
Answers == IF rev = "setup_runner" /\ dir THEN BOOLEAN ELSE {TRUE}
MainExitCodes == IF rev = "setup_runner" THEN ExitCodes ELSE {0}

Main ==
  \E fail \in MainFails, answer \in Answers, rc \in MainExitCodes :
    LET r0 == main_setup(rev, Begin, Flags("tokA"), fail, answer, rc)
    IN IF r0.result # "ok" \/ ~Ran(r0.log, "write_token")
       THEN Return("main",
                   main(rev, Begin, Flags("tokA"), fail, answer, rc, NotFound,
                        NotFound, FALSE),
                   NotFound, NotFound)
       ELSE \E p \in Free(r0.procs), intr \in BOOLEAN :
              \E q \in (Free(r0.procs) \ {p}) \cup {NotFound} :
                LET r1 == main(rev, Begin, Flags("tokA"), fail, answer, rc, p, q,
                              intr)
                IN Return("main", r1, p,
                          find_child_search("runner", r1.procs, p, Listener).res)

\* main returns or raises and the script exits.
Exit ==
  /\ ~Ready
  /\ last' = Idle(IF last.op = "stop" /\ last.result = "ok" THEN "stopped"
                  ELSE IF last.op = "setup" /\ last.result = "ok"
                       THEN "installed"
                  ELSE IF /\ last.op = "setup"
                          /\ last.result = "install_exception" /\ ~extracted
                       THEN "install_failed" ELSE "idle")
  /\ UNCHANGED <<rev, dir, extracted, archive, pidFile, tokenFile, procs, io, call>>

\* ---------------------------------------------------------- the environment
\* A process exits by itself.
ProcExit ==
  \E p \in DOMAIN procs :
    /\ Ready
    /\ procs[p].alive
    /\ procs' = Reap(procs, p)
    /\ last' = Idle("idle")
    /\ UNCHANGED <<rev, dir, extracted, archive, pidFile, tokenFile, io, call>>

\* A launcher forks its listener after start's grace period has ended.
LateFork ==
  \E l \in DOMAIN procs, q \in Free(procs) :
    /\ Ready
    /\ procs[l].alive /\ procs[l].pending
    /\ procs' = Fork(procs, l, q)
    /\ last' = Idle("idle")
    /\ UNCHANGED <<rev, dir, extracted, archive, pidFile, tokenFile, io, call>>

\* A process that has nothing to do with the work directory appears: some
\* command, or the listener of another runner on the host, started by init
\* or by another such process.  It gets any pid that is free.
ForeignSpawn ==
  \E q \in Free(procs), name \in {"other", Listener} :
    \E parent \in {InitPid} \cup {x \in DOMAIN procs : procs[x].alive /\ ~procs[x].ours} :
      /\ Ready
      /\ procs' = [procs EXCEPT ![q] = [alive |-> TRUE, name |-> name,
                                        ppid |-> parent, ours |-> FALSE,
                                        cur |-> FALSE, pending |-> FALSE]]
      /\ last' = Idle("idle")
      /\ UNCHANGED <<rev, dir, extracted, archive, pidFile, tokenFile, io, call>>

\* ------------------------------------------------------------ the search
\* find_child_search on its own, from any pid and on any process table the
\* environment builds; at most one process ends while the search runs.
Exits == {{}} \cup {{p} : p \in {q \in DOMAIN procs : procs[q].alive}}

Query ==
  \E root \in DOMAIN procs, exits \in Exits :
    LET s == Search(rev, procs, <<root>>, Listener, {}, exits)
        r == [Begin EXCEPT
                !.procs = s.procs,
                !.queried = s.queried,
                !.raced = \E p \in s.queried : ~Alive(s.procs, p),
                !.result = IF s.res = Raised THEN "CalledProcessError" ELSE "ok"]
    IN Return("search", r, root, s.res)

Next ==
  \/ Setup
  \/ Start
  \/ Stop
  \/ Remove
  \/ CleanUp
  \/ Exit
  \/ ProcExit
  \/ LateFork
  \/ ForeignSpawn

Spec == Init /\ [][Next]_vars

\* The controller issues only setup, start, stop and clean_up.
NextLifecycle ==
  \/ Setup
  \/ Start
  \/ Stop
  \/ CleanUp
  \/ Exit
  \/ ProcExit
  \/ LateFork
  \/ ForeignSpawn

Lifecycle == Init /\ [][NextLifecycle]_vars

\* The script run with and without an action flag on the folders and the
\* processes its own runs leave behind.
NextInstalls ==
  \/ Main
  \/ Setup
  \/ Start
  \/ Stop
  \/ CleanUp
  \/ Exit
  \/ ProcExit
  \/ LateFork

Installs == Init /\ [][NextInstalls]_vars

\* Searches only, on the process tables other programs leave.
NextSearch ==
  \/ Query
  \/ Exit
  \/ ProcExit
  \/ ForeignSpawn

\* ------------------------------------------------------------ the pid file
\* start's write of .pid and stop's read of it as separate steps.  The pids
\* written have one, two and three digits.
LastWritePid == 101
WritePids == 1 .. LastWritePid

\* start has launched run.sh as pid p and slept.
BeginWrite ==
  \E p \in WritePids :
    /\ io.pos = "idle"
    /\ io' = [IoIdle EXCEPT !.pos = "start", !.pid = p, !.prev = pidFile]
    /\ UNCHANGED <<rev, dir, extracted, archive, pidFile, tokenFile, procs, last, call>>

\* open('.pid', 'w').
OpenPid ==
  /\ io.pos = "start"
  /\ pidFile' = write_pid(Begin, io.pid, TRUE).pidFile
  /\ io' = [io EXCEPT !.pos = "open"]
  /\ UNCHANGED <<rev, dir, extracted, archive, tokenFile, procs, last, call>>

\* The with block ends: the buffer is written and the file closed.
ClosePid ==
  /\ io.pos = "open"
  /\ pidFile' = write_pid(Begin, io.pid, FALSE).pidFile
  /\ io' = [io EXCEPT !.pos = "closed"]
  /\ UNCHANGED <<rev, dir, extracted, archive, tokenFile, procs, last, call>>

\* start returns.
EndWrite ==
  /\ io.pos = "closed"
  /\ io' = IoIdle
  /\ UNCHANGED <<rev, dir, extracted, archive, pidFile, tokenFile, procs, last, call>>

\* Another run of the script reads .pid, as stop does.
ReadPid ==
  /\ io' = [io EXCEPT !.readAt = io.pos, !.seen = pidFile,
                       !.parsed = read_pid(pidFile)]
  /\ UNCHANGED <<rev, dir, extracted, archive, pidFile, tokenFile, procs, last, call>>

\* clean_up deletes the folder and setup makes it again: .pid is gone.
Reinstall ==
  /\ io.pos = "idle"
  /\ pidFile.exists
  /\ pidFile' = rmtree(Begin).pidFile
  /\ io' = IoIdle
  /\ UNCHANGED <<rev, dir, extracted, archive, tokenFile, procs, last, call>>

InitPidFile ==
  /\ rev \in Revisions
  /\ dir = TRUE
  /\ extracted = TRUE
  /\ archive = (rev = "setup_runner")
  /\ pidFile = NoFile
  /\ tokenFile = File("tokA")
  /\ procs = [p \in Pids |-> Dead]
  /\ last = Idle("idle")
  /\ io = IoIdle
  /\ call = NoCall

NextPidFile ==
  \/ BeginWrite
  \/ OpenPid
  \/ ClosePid
  \/ EndWrite
  \/ ReadPid
  \/ Reinstall

PidFile == InitPidFile /\ [][NextPidFile]_vars

\* ---------------------------------------------------- the command line
\* A string is the sequence of its pieces: names, digits, ':' and ' ' are
\* pieces, so that split, strip and isnumeric work on it as on characters.
\* An option is given with a value or is None.
None == [given |-> FALSE, v |-> <<>>]
Some(v) == [given |-> TRUE, v |-> v]
True == Some(<<"True">>)
False == Some(<<"False">>)
Truthy(x) == x.given /\ x.v \notin {<<>>, <<"False">>}

\* flags.pop(key) and flags[key] = value on a dictionary.
Pop(flags, key) == [k \in DOMAIN flags \ {key} |-> flags[k]]
Put(flags, key, value) ==
  [k \in DOMAIN flags \cup {key} |-> IF k = key THEN value ELSE flags[k]]

\* str.split(':'): the pieces between the colons.
RECURSIVE split(_)
split(text) ==
  LET at == {i \in DOMAIN text : text[i] = ":"}
  IN IF at = {} THEN <<text>>
     ELSE LET i == CHOOSE i \in at : \A j \in at : i <= j
          IN <<SubSeq(text, 1, i - 1)>> \o split(SubSeq(text, i + 1, Len(text)))

\* str.strip(): without the blanks at both ends.
RECURSIVE strip(_)
strip(text) ==
  IF text = <<>> THEN text
  ELSE IF Head(text) = " " THEN strip(Tail(text))
  ELSE IF text[Len(text)] = " " THEN strip(SubSeq(text, 1, Len(text) - 1))
  ELSE text

\* str.isnumeric(): not empty and digits only.
Digits == {"1", "2", "3"}
isnumeric(text) == text # <<>> /\ \A i \in DOMAIN text : text[i] \in Digits

\* slurmbench.py GPUS; a name is in it when it is one piece that is.
GPUS ==
  {"a100", "a40", "titanrtx", "titanx", "testlak40", "testlak20", "gtx1080",
   "gpu"}
InGPUS(name) == Len(name) = 1 /\ name[1] \in GPUS

\* What a function returns, or the exception it raises.
Returned(flags) == [raised |-> "", flags |-> flags]
Raise(message) == [raised |-> message, flags |-> <<>>]

\* format_gpu_flag without the test of the amount.
format_gpu_flag_any_amount(flags) ==
  IF ~flags["gpu"].given THEN Returned(Pop(flags, "gpu"))
  ELSE LET gpu == flags["gpu"].v
           rest == Pop(flags, "gpu")
           gpu_args == split(gpu)
           name == gpu_args[1]
           num_of_gpus == IF Len(gpu_args) = 1 THEN <<"1">> ELSE gpu_args[2]
           options == rest["slurm-options"].v
       IN IF Len(gpu_args) > 2 THEN Raise("must be given as GPU:AMOUNT")
          ELSE IF ~InGPUS(name) THEN Raise("is not a valid GPU")
          ELSE IF name = <<"gpu">>
               THEN Returned(Put(rest, "slurm-options",
                      Some(strip(<<"-p gpu --gres=gpu:">> \o num_of_gpus
                                 \o <<" ">> \o options))))
               ELSE Returned(Put(rest, "slurm-options",
                      Some(strip(<<"-p gpu --gres=gpu:">> \o name \o <<":">>
                                 \o num_of_gpus \o <<" ">> \o options))))

\* slurmbench.py format_gpu_flag.
format_gpu_flag(flags) ==
  IF ~flags["gpu"].given THEN Returned(Pop(flags, "gpu"))
  ELSE LET gpu == flags["gpu"].v
           rest == Pop(flags, "gpu")
           gpu_args == split(gpu)
           name == gpu_args[1]
           num_of_gpus == IF Len(gpu_args) = 1 THEN <<"1">> ELSE gpu_args[2]
           options == rest["slurm-options"].v
       IN IF Len(gpu_args) > 2 THEN Raise("must be given as GPU:AMOUNT")
          ELSE IF ~InGPUS(name) THEN Raise("is not a valid GPU")
          ELSE IF ~isnumeric(num_of_gpus)
               THEN Raise("is not a valid number of GPUs")
          ELSE IF name = <<"gpu">>
               THEN Returned(Put(rest, "slurm-options",
                      Some(strip(<<"-p gpu --gres=gpu:">> \o num_of_gpus
                                 \o <<" ">> \o options))))
               ELSE Returned(Put(rest, "slurm-options",
                      Some(strip(<<"-p gpu --gres=gpu:">> \o name \o <<":">>
                                 \o num_of_gpus \o <<" ">> \o options))))

\* is_any_none_flags and is_all_none_flags: whether they return an error.
is_any_none_flags(flags) == \E k \in DOMAIN flags : ~flags[k].given
is_all_none_flags(flags) == \E k \in DOMAIN flags : flags[k].given

\* slurmbench.py format_json_flag: json stays in the dictionary.
format_json_flag(flags) ==
  IF ~flags["json"].given THEN Raise("The json flags must be set.")
  ELSE Returned(Put(flags, "futhark-options",
         Some(strip(<<"--json ">> \o flags["json"].v \o <<" ">>
                    \o flags["futhark-options"].v))))

\* slurmbench.py get_flags on the options parse_args returns.
slurmbench_get_flags(flags) ==
  LET gpu == format_gpu_flag(flags)
  IN IF gpu.raised # "" THEN gpu
     ELSE IF is_any_none_flags(gpu.flags) THEN Raise("Missing arguments")
     ELSE format_json_flag(gpu.flags)

\* runner.py get_flags on the options parse_args returns; settings says
\* whether DEFAULT_SETTINGS knows the host.
runner_get_flags(flags, settings) ==
  IF Truthy(flags["start"])
  THEN IF is_all_none_flags(Pop(flags, "start")) THEN Raise("Too many arguments")
       ELSE Returned([k \in {"start"} |-> flags["start"]])
  ELSE LET f1 == Pop(flags, "start")
       IN IF Truthy(f1["kill"])
          THEN IF is_all_none_flags(Pop(f1, "kill"))
               THEN Raise("Too many arguments")
               ELSE Returned([k \in {"kill"} |-> f1["kill"]])
          ELSE LET f2 == Pop(f1, "kill")
               IN IF f2["remove"].given
                  THEN IF is_all_none_flags(Pop(f2, "remove"))
                       THEN Raise("Too many arguments")
                       ELSE Returned([k \in {"remove"} |-> f2["remove"]])
                  ELSE LET f3 == Pop(f2, "remove")
                           f4 == IF f3["url"].given THEN f3
                                 ELSE Put(f3, "url",
                                          Some(<<"https://github.com/diku-dk/futhark">>))
                           f5 == IF ~f4["name"].given /\ ~f4["labels"].given
                                    /\ settings
                                 THEN Put(Put(f4, "name", Some(<<"futhark01">>)),
                                          "labels",
                                          Some(<<"A100,cuda,opencl,multicore">>))
                                 ELSE f4
                       IN IF is_any_none_flags(f5) THEN Raise("Missing arguments")
                          ELSE Returned(f5)

\* str.replace(old, new): the occurrences of old from the left, none
\* overlapping the one before; the empty old stands before every character
\* and at the end.
RECURSIVE replace(_, _, _)
replace(val, old, new) ==
  IF old = <<>>
  THEN new \o (IF val = <<>> THEN <<>>
               ELSE <<Head(val)>> \o replace(Tail(val), old, new))
  ELSE IF Len(val) < Len(old) THEN val
  ELSE IF SubSeq(val, 1, Len(old)) = old
       THEN new \o replace(SubSeq(val, Len(old) + 1, Len(val)), old, new)
  ELSE <<Head(val)>> \o replace(Tail(val), old, new)

\* replace_home writing into the mapping it was given.
replace_home_in_place(env, new_home) ==
  IF "HOME" \notin DOMAIN env
  THEN [raised |-> "KeyError", ret |-> env, given |-> env]
  ELSE LET old_home == env["HOME"]
           copy == [key \in DOMAIN env |-> replace(env[key], old_home, new_home)]
       IN [raised |-> "", ret |-> copy, given |-> copy]

\* runner.py replace_home(env, new_home): ret is the mapping it returns and
\* given the mapping it was called with, as the call leaves it.
replace_home(env, new_home) ==
  IF "HOME" \notin DOMAIN env
  THEN [raised |-> "KeyError", ret |-> env, given |-> env]
  ELSE LET old_home == env["HOME"]
           copy == [key \in DOMAIN env |-> replace(env[key], old_home, new_home)]
       IN [raised |-> "", ret |-> copy, given |-> env]

\* The command lines tried: --gpu values of up to MaxGpuLen pieces, and for
\* every other option the choice between leaving it out and one value.
MaxGpuLen == 4
GpuPieces == {"a100", "gpu", "v100", "2", "3", ":"}
GpuValues == UNION {[1 .. n -> GpuPieces] : n \in 0 .. MaxGpuLen}
Given(value) == {None, Some(value)}
Options(value) == {Some(<<>>), Some(<<value>>), Some(<<" ", value, " ">>)}

CallFormatGpu ==
  \E gpu \in {None} \cup {Some(g) : g \in GpuValues},
     options \in Options("--mem=8G") :
    LET flags == [k \in {"gpu", "futhark", "benchmarks", "futhark-options",
                         "json", "slurm-options"} |->
                    IF k = "gpu" THEN gpu
                    ELSE IF k = "slurm-options" THEN options
                    ELSE IF k = "futhark-options" THEN Some(<<>>)
                    ELSE None]
    IN /\ call.fn = "none"
       /\ call' = [fn |-> "format_gpu_flag", arg |-> flags,
                   out |-> format_gpu_flag(flags)]
       /\ UNCHANGED <<rev, dir, extracted, archive, pidFile, tokenFile, procs, last, io>>

CallSlurmGetFlags ==
  \E gpu \in {None, Some(<<"a100", ":", "2">>), Some(<<"v100">>)},
     futhark \in Given(<<"futhark.tar.xz">>),
     benchmarks \in Given(<<"benchmarks">>),
     json \in Given(<<"out.json">>),
     fo \in Options("--backend=cuda"),
     so \in Options("--mem=8G") :
    LET flags == [k \in {"gpu", "futhark", "benchmarks", "futhark-options",
                         "json", "slurm-options"} |->
                    IF k = "gpu" THEN gpu
                    ELSE IF k = "futhark" THEN futhark
                    ELSE IF k = "benchmarks" THEN benchmarks
                    ELSE IF k = "json" THEN json
                    ELSE IF k = "futhark-options" THEN fo
                    ELSE so]
    IN /\ call.fn = "none"
       /\ call' = [fn |-> "slurmbench.get_flags", arg |-> flags,
                   out |-> slurmbench_get_flags(flags)]
       /\ UNCHANGED <<rev, dir, extracted, archive, pidFile, tokenFile, procs, last, io>>

CallRunnerGetFlags ==
  \E tokenOpt \in Given(<<"tokA">>),
     urlOpt \in Given(<<"https://github.com/a/b">>),
     nameOpt \in Given(<<"runner">>), labelsOpt \in Given(<<"cuda">>),
     startOpt \in {False, True}, killOpt \in {False, True},
     removeOpt \in {None, Some(<<>>), Some(<<"tokB">>)},
     settings \in BOOLEAN :
    LET flags == [k \in {"token", "url", "name", "labels", "start", "kill",
                         "remove"} |->
                    IF k = "token" THEN tokenOpt
                    ELSE IF k = "url" THEN urlOpt
                    ELSE IF k = "name" THEN nameOpt
                    ELSE IF k = "labels" THEN labelsOpt
                    ELSE IF k = "start" THEN startOpt
                    ELSE IF k = "kill" THEN killOpt
                    ELSE removeOpt]
    IN /\ call.fn = "none"
       /\ call' = [fn |-> "runner.get_flags", arg |-> flags,
                   out |-> runner_get_flags(flags, settings)]
       /\ UNCHANGED <<rev, dir, extracted, archive, pidFile, tokenFile, procs, last, io>>

\* The environments tried: values of up to MaxEnvLen path components for
\* HOME, when it is set, and for PATH, and a new home beside the old one or
\* below it.
MaxEnvLen == 3
EnvValues == UNION {[1 .. n -> {"/h", "/u"}] : n \in 0 .. MaxEnvLen}
NewHomes == {<<"/w">>, <<"/h", "/w">>}

CallReplaceHome ==
  \E home \in Given(<<>>) \cup {Some(v) : v \in EnvValues},
     path \in EnvValues, new_home \in NewHomes :
    LET env == [key \in (IF home.given THEN {"HOME"} ELSE {}) \cup {"PATH"} |->
                  IF key = "HOME" THEN home.v ELSE path]
    IN /\ call.fn = "none"
       /\ call' = [fn |-> "replace_home", arg |-> [env |-> env, new_home |-> new_home],
                   out |-> replace_home(env, new_home)]
       /\ UNCHANGED <<rev, dir, extracted, archive, pidFile, tokenFile, procs, last, io>>

\* The script ends.
CallEnd ==
  /\ call.fn # "none"
  /\ call' = NoCall
  /\ UNCHANGED <<rev, dir, extracted, archive, pidFile, tokenFile, procs, last, io>>

NextCalls ==
  \/ CallFormatGpu
  \/ CallSlurmGetFlags
  \/ CallRunnerGetFlags
  \/ CallReplaceHome
  \/ CallEnd

Calls == Init /\ [][NextCalls]_vars

\* The searches get one pid more, for a tree of three levels with a sibling
\* on the second.
LastSearchPid == 12
SearchPids == 9 .. LastSearchPid

InitSearches ==
  /\ rev \in Revisions
  /\ dir = FALSE
  /\ extracted = FALSE
  /\ archive = FALSE
  /\ pidFile = NoFile
  /\ tokenFile = NoFile
  /\ procs = [p \in SearchPids |-> Dead]
  /\ last = Idle("idle")
  /\ io = IoIdle
  /\ call = NoCall

Searches == InitSearches /\ [][NextSearch]_vars

\* ------------------------------------------------------------- the claims
\* The live listeners launched from the work directory, and the one of the
\* most recent start.
OurListeners ==
  {p \in Pids : procs[p].alive /\ procs[p].ours /\ procs[p].name = Listener}
CurListeners == {p \in OurListeners : procs[p].cur}

\* The pid file holds no pid: it is absent or empty.
NoPidRecorded == ~pidFile.exists \/ pidFile.content = <<>>

\* Event a comes before every event of the set B in the log.
Precedes(log, a, B) ==
  \A i \in 1 .. Len(log) :
    log[i] \in B => \E j \in 1 .. i - 1 : log[j] = a

\* C1: under setup, start, stop and clean_up issued one at a time, at most
\* one listener launched from the work directory is alive.
C1_AtMostOneListener == Cardinality(OurListeners) <= 1

\* C2: when stop returns in a folder whose start has recorded a pid, the
\* listener launched by the most recent start is no longer alive, whatever
\* has happened to its launcher shell.
C2_StopEndsListener ==
  (last.op = "stop" /\ last.result = "ok" /\ ~NoPidRecorded) =>
    CurListeners = {}

\* C3: stop sends SIGKILL only to a process named Runner.Listener, also when
\* the recorded pid is stale and has been reused.
C3_StopSignalsOnlyListener ==
  last.op = "stop" => \A x \in last.sig : x.name = Listener

\* C4: stop and clean_up never signal the listener of another runner on the
\* host.
C4_OtherRunnersUntouched ==
  last.op \in {"stop", "clean"} =>
    \A x \in last.sig : ~(x.name = Listener /\ ~x.ours)

\* C5: start stops before it launches; clean_up stops before it runs the
\* vendor removal command or deletes the folder.
C5_StopComesFirst ==
  /\ last.op = "start" => Precedes(last.log, "stop", {"launch"})
  /\ last.op = "clean" => Precedes(last.log, "stop", {"config_remove", "rmtree"})

\* C6: when a search from the launched process finds a listener at the end
\* of start's grace period, the pid file holds that listener's pid when
\* start returns.
C6_StartRecordsListener ==
  (last.op = "start" /\ last.result = "ok" /\ last.found # NotFound) =>
    (pidFile.exists /\ pidFile.content = str(last.found))

\* C7: when the launched process has no listener below it at the end of the
\* grace period, start returns with no pid recorded, and a stop issued next
\* signals nothing.
C7_NoListenerNoPid ==
  (last.op = "start" /\ last.result = "ok" /\ last.found = NotFound) =>
    (NoPidRecorded /\ stop(rev, Begin, FALSE).kills = {})

\* C8: the second of two consecutive stops signals no process, raises
\* nothing and changes nothing.
C8_StopIdempotent ==
  (last.op = "stop" /\ last.repeat) =>
    (last.sig = {} /\ last.result = "ok" /\ ~last.changed)

\* C9: with the folder present and the pid file absent or empty, stop calls
\* os.kill for no pid, asks about no process, raises nothing and changes
\* nothing.
C9_StopWithoutPid ==
  (last.op = "stop" /\ dir /\ NoPidRecorded) =>
    (last.kills = {} /\ last.queried = {} /\ last.result = "ok"
     /\ ~last.changed)

\* A stop that has returned in a folder whose pid file is empty.
C9_Witness ==
  last.op = "stop" /\ dir /\ pidFile.exists /\ pidFile.content = <<>>

\* C10: when the recorded pid denotes no process, or the process found
\* exits before the signal reaches it, stop returns without an error.
C10_StopAfterExit ==
  (last.op = "stop" /\ dir /\ ~NoPidRecorded /\ (~last.recorded \/ last.raced))
    => last.result = "ok"

\* A stop whose os.kill met no process: ProcessLookupError was swallowed.
C10_Witness ==
  last.op = "stop" /\ last.kills # {} /\ last.sig = {}


\* How often the operation ran the step.
Count(log, step) == Cardinality({i \in DOMAIN log : log[i] = step})

\* C11: after a setup that succeeds the folder exists and .token holds the
\* token of the flags, which is the token config.sh was given.
C11_SetupPersistsToken ==
  (last.op = "setup" /\ last.result = "ok")
    => /\ dir
       /\ tokenFile.exists
       /\ tokenFile.content = last.token
       /\ last.token \in Tokens

C11_Witness ==
  /\ last.op = "setup" /\ last.result = "ok" /\ ~last.wasDir
  /\ tokenFile = File("tokB")

\* C12: when config.sh exits nonzero setup raises config_exception, the
\* folder it made is still there and no .token has been written.
C12_ConfigFailureNoToken ==
  (last.op = "setup" /\ last.result = "config_exception")
    => dir /\ ~tokenFile.exists /\ ~Ran(last.log, "write_token")

C12_Witness ==
  /\ last.op = "setup" /\ last.result = "config_exception"
  /\ last.token = "tokB" /\ extracted

\* C13, as stated: when an install command exits nonzero, the error setup
\* raises names that command, no later install command runs, config.sh does
\* not run and .token is not written.
C13_InstallErrorNamesStep ==
  (last.op = "setup" /\ last.failed # NotFound)
    => /\ last.result = "install_exception"
       /\ last.named = last.failed
       /\ Count(last.log, "install") = last.failed
       /\ ~Ran(last.log, "config")
       /\ ~tokenFile.exists

\* C13, amended: when an install command exits nonzero, setup raises
\* install_exception, whose message names no command; no later install
\* command runs, config.sh does not run and .token is not written.
C13_InstallErrorStops ==
  (last.op = "setup" /\ last.failed # NotFound)
    => /\ last.result = "install_exception"
       /\ last.named = NotFound
       /\ Count(last.log, "install") = last.failed
       /\ ~Ran(last.log, "config")
       /\ ~Ran(last.log, "write_token")
       /\ ~tokenFile.exists

C13_Witness ==
  /\ last.op = "setup" /\ last.result = "install_exception"
  /\ last.failed = 2 /\ dir /\ ~extracted

\* C14: setup on a folder that exists raises before any command runs and
\* leaves the folder and everything in it as they were.
C14_SetupOnExistingFolder ==
  (last.op = "setup" /\ last.wasDir)
    => /\ last.result = "AssertionError"
       /\ last.log = <<>>
       /\ ~last.changed
       /\ dir

C14_Witness ==
  /\ last.op = "setup" /\ last.wasDir /\ tokenFile.exists /\ pidFile.exists

\* C15: a remove that directly follows a setup that succeeded, and whose
\* config.sh remove exits 0, leaves no work directory.
C15_RemoveDeletesFolder ==
  (last.op = "remove" /\ last.fresh /\ last.result = "ok") => ~dir

\* The token the caller of a removal gave: runner.py hands it to config.sh
\* as it is, setup-runner.py takes none.
GivenToken == IF rev = "runner" THEN last.token ELSE NoToken

\* C16: a removal whose caller gives no token hands config.sh remove the
\* token that setup wrote to .token.
C16_RemoveUsesPersistedToken ==
  (/\ last.op \in {"remove", "clean"}
   /\ Ran(last.log, "config_remove")
   /\ last.wasToken \in Tokens
   /\ GivenToken = NoToken)
    => last.token = last.wasToken

\* C17: clean_up without a work directory raises, and has neither stopped
\* nor removed anything nor changed a file or a process.
C17_CleanUpAbsent ==
  (last.op = "clean" /\ ~last.wasDir)
    => /\ last.result = "Exception"
       /\ last.log = <<>>
       /\ last.kills = {}
       /\ ~last.changed
       /\ ~dir

C17_Witness ==
  /\ last.op = "clean" /\ ~last.wasDir
  /\ \E p \in Pids : procs[p].alive /\ procs[p].name = Listener

\* C18: start and stop without a work directory raise, and have launched
\* nothing, signalled nothing and made neither the folder nor a pid file.
C18_StartStopAbsent ==
  (last.op \in {"start", "stop"} /\ ~last.wasDir)
    => /\ last.result \in {"Exception", "AssertionError"}
       /\ last.log = <<>>
       /\ last.kills = {}
       /\ last.launched = NotFound
       /\ ~last.changed
       /\ ~dir /\ ~pidFile.exists

C18_Witness ==
  /\ last.op \in {"start", "stop"} /\ ~last.wasDir
  /\ \E p \in Pids : procs[p].alive /\ procs[p].name = Listener

\* The processes of the tree below root, root included.
RECURSIVE Below(_, _, _)
Below(pt, S, n) ==
  IF n = 0 THEN S
  ELSE Below(pt, S \cup {c \in DOMAIN pt : pt[c].alive /\ pt[c].ppid \in S}, n - 1)
Tree(pt, root) ==
  {p \in Below(pt, {root}, Cardinality(DOMAIN pt)) : pt[p].alive}

\* C19: a search during which no process ends, from a root with no process
\* named Runner.Listener at or below it, returns None and raises nothing.
C19_SearchMissReturnsNone ==
  (/\ last.op = "search" /\ ~last.changed
   /\ \A p \in Tree(procs, last.launched) : procs[p].name # Listener)
    => last.result = "ok" /\ last.found = NotFound

\* C20: a search that asks for the name of a pid whose process has ended
\* while it waited in the queue raises nothing and goes on: it finds a listener exactly if the queue
\* still leads to one.
C20_ExitedPidIsNoMatch ==
  (last.op = "search" /\ last.raced /\ last.changed)
    => /\ last.result = "ok"
       /\ last.found = NotFound
            <=> \A p \in Tree(procs, last.launched) : procs[p].name # Listener

\* The processes named Runner.Listener at or below root, and how far below
\* root a process of its tree is.
Matches(pt, root) == {p \in Tree(pt, root) : pt[p].name = Listener}
RECURSIVE Depth(_, _, _)
Depth(pt, root, p) == IF p = root THEN 0 ELSE 1 + Depth(pt, root, pt[p].ppid)

\* C21: on a tree with exactly one process named Runner.Listener at or below
\* the root, a search during which no process ends returns that process.
C21_SearchFindsOnlyMatch ==
  (/\ last.op = "search" /\ ~last.changed
   /\ Cardinality(Matches(procs, last.launched)) = 1)
    => last.result = "ok" /\ last.found \in Matches(procs, last.launched)

\* The match is two levels below the root, behind a sibling of its parent.
C21_Witness ==
  /\ last.op = "search" /\ ~last.changed
  /\ Matches(procs, last.launched) = {last.found}
  /\ Depth(procs, last.launched, last.found) = 2
  /\ \E sib \in Tree(procs, last.launched) :
       /\ Depth(procs, last.launched, sib) = 1
       /\ sib # procs[last.found].ppid

\* C22: with several processes named Runner.Listener in the tree, a search
\* during which no process ends returns one of them that no other one is
\* nearer to the root than.
C22_SearchFindsShallowest ==
  (/\ last.op = "search" /\ ~last.changed
   /\ Matches(procs, last.launched) # {})
    => /\ last.result = "ok"
       /\ last.found \in Matches(procs, last.launched)
       /\ \A m \in Matches(procs, last.launched) :
            Depth(procs, last.launched, last.found)
              <= Depth(procs, last.launched, m)

\* A deeper match hangs below a process that was asked before the one found.
C22_Witness ==
  /\ last.op = "search" /\ ~last.changed
  /\ last.found \in Matches(procs, last.launched)
  /\ Depth(procs, last.launched, last.found) = 1
  /\ \E m \in Matches(procs, last.launched) :
       /\ Depth(procs, last.launched, m) = 2
       /\ procs[m].ppid < last.found
       /\ procs[m].ppid # last.launched

\* The vendor commands of a log.
VendorRuns(log) ==
  Count(log, "install") + Count(log, "config") + Count(log, "config_remove")

\* C23: a setup, remove or clean_up runs each install command, config.sh
\* and config.sh remove at most once, and a vendor command that exits
\* nonzero is the last step of the operation, which raises.
C23_NoRetry ==
  last.op \in {"setup", "remove", "clean"}
    => /\ Count(last.log, "install") <= InstallSteps(rev)
       /\ Count(last.log, "config") <= 1
       /\ Count(last.log, "config_remove") <= 1
       /\ Ran(last.log, "exit_nonzero")
            => /\ Count(last.log, "exit_nonzero") = 1
               /\ last.log[Len(last.log)] = "exit_nonzero"
               /\ last.log[Len(last.log) - 1]
                    \in {"install", "config", "config_remove"}
               /\ last.result \in {"install_exception", "config_exception",
                                    "removal_exception"}

C23_Witness ==
  /\ last.op = "clean" /\ last.result = "removal_exception"
  /\ VendorRuns(last.log) = 1
  /\ last.log[Len(last.log)] = "exit_nonzero"

\* C29: a remove or clean_up whose config.sh remove exits nonzero raises the
\* removal error and leaves the folder and every file in it as they were.
C29_RemovalFailureKeepsFolder ==
  (/\ last.op \in {"remove", "clean"}
   /\ Ran(last.log, "config_remove") /\ Ran(last.log, "exit_nonzero"))
    => /\ last.result = "removal_exception"
       /\ ~last.touched
       /\ dir /\ extracted

C29_Witness ==
  /\ last.op \in {"remove", "clean"} /\ Ran(last.log, "exit_nonzero")
  /\ pidFile.exists /\ pidFile.content # <<>> /\ tokenFile.exists

\* C30: a clean_up that directly follows a setup which an install command
\* ended before config.sh was unpacked raises nothing, does not run
\* config.sh remove and leaves no work directory.
C30_CleanAfterFailedInstall ==
  (last.op = "clean" /\ last.follows = "install_failed")
    => /\ last.result = "ok"
       /\ ~Ran(last.log, "config_remove")
       /\ ~dir /\ ~pidFile.exists /\ ~tokenFile.exists

C30_Witness ==
  /\ last.op = "clean" /\ last.follows = "install_failed"
  /\ Ran(last.log, "rmtree")

\* C24: whatever a reader finds in .pid while start writes a pid to it is
\* the file start found, an empty file or the file with all digits of the
\* pid; the empty file counts as no pid.
C24_NoPartialPid ==
  io.readAt \in {"start", "open", "closed"}
    => /\ io.seen \in {io.prev, File(<<>>), File(str(io.pid))}
       /\ io.seen = File(<<>>) => io.parsed = NotFound

C24_Witness ==
  /\ io.readAt = "open" /\ io.seen = File(<<>>)
  /\ io.prev.exists /\ io.prev.content # <<>> /\ io.pid >= 10

\* C25: the pid stop makes of a .pid that start has written is the pid
\* start wrote, and of a .pid that is gone it makes none.
C25_PidRoundTrip ==
  /\ io.readAt = "closed" => io.parsed = io.pid
  /\ (io.readAt # "none" /\ ~io.seen.exists) => io.parsed = NotFound

C25_Witness ==
  /\ io.readAt = "closed" /\ io.pid >= 100 /\ io.parsed = io.pid
  /\ io.prev.exists /\ io.prev.content # io.seen.content

\* -------------------------------------------------------- C26 .. C28
\* The --gres value the documentation gives for a --gpu value: g:1 for a
\* known name g, g:n for g:n with a numeric n, and without the name when
\* the name is gpu.  No value is documented for anything else.
Documented(gpu) ==
  LET known == gpu # <<>> /\ gpu[1] \in GPUS
      amount == SubSeq(gpu, 3, Len(gpu))
  IN IF known /\ Len(gpu) = 1
     THEN {IF gpu[1] = "gpu" THEN <<"1">> ELSE <<gpu[1], ":", "1">>}
     ELSE IF known /\ Len(gpu) >= 3 /\ gpu[2] = ":" /\ isnumeric(amount)
     THEN {IF gpu[1] = "gpu" THEN amount ELSE <<gpu[1], ":">> \o amount}
     ELSE {}

\* C26: format_gpu_flag on a given --gpu value puts the documented
\* --gres value in front of slurm-options, removes gpu and leaves the
\* other options alone; a value with no documented meaning (unknown name,
\* non-numeric amount, more than one ':') raises instead.
C26_GpuFlagAsDocumented ==
  (call.fn = "format_gpu_flag" /\ call.arg["gpu"].given)
    => LET gpu == call.arg["gpu"].v
           options == call.arg["slurm-options"].v
       IN IF Documented(gpu) = {} THEN call.out.raised # ""
          ELSE /\ call.out.raised = ""
               /\ DOMAIN call.out.flags = DOMAIN call.arg \ {"gpu"}
               /\ \A gres \in Documented(gpu) :
                    call.out.flags["slurm-options"] =
                      Some(strip(<<"-p gpu --gres=gpu:">> \o gres \o <<" ">>
                                 \o options))
               /\ \A k \in DOMAIN call.out.flags \ {"slurm-options"} :
                    call.out.flags[k] = call.arg[k]

\* A call with a known name and a two-digit amount in front of options that
\* carry blanks has returned.
C26_Witness ==
  /\ call.fn = "format_gpu_flag"
  /\ call.arg["gpu"] = Some(<<"a100", ":", "2", "3">>)
  /\ call.arg["slurm-options"] = Some(<<" ", "--mem=8G", " ">>)
  /\ call.out.raised = ""
  /\ call.out.flags["slurm-options"] =
       Some(<<"-p gpu --gres=gpu:", "a100", ":", "2", "3", " ", " ",
              "--mem=8G">>)

\* C27: a slurmbench get_flags that returns gives a dictionary with the
\* four keys futhark, benchmarks, futhark-options and slurm-options only.
C27_FourKeys ==
  (call.fn = "slurmbench.get_flags" /\ call.out.raised = "")
    => DOMAIN call.out.flags =
         {"futhark", "benchmarks", "futhark-options", "slurm-options"}

\* Whether an option of runner.py is on the command line.
OnLine(flags, k) ==
  IF k \in {"start", "kill"} THEN Truthy(flags[k]) ELSE flags[k].given

\* C28: runner.py get_flags with exactly one of start, kill and remove on
\* the command line, and none of token, url, name and labels, raises nothing
\* and returns that action alone.
C28_OneActionAlone ==
  \A action \in {"start", "kill", "remove"} :
    (/\ call.fn = "runner.get_flags"
     /\ \A k \in DOMAIN call.arg : OnLine(call.arg, k) <=> k = action)
      => /\ call.out.raised = ""
         /\ call.out.flags = [k \in {action} |-> call.arg[action]]

\* -------------------------------------------------------- C31 .. C34
\* Where old occurs in val, and val with the occurrences that start at the
\* positions S, from position i on, replaced by new.
Occurrences(val, old) ==
  {i \in 1 .. Len(val) - Len(old) + 1 : SubSeq(val, i, i + Len(old) - 1) = old}
RECURSIVE Splice(_, _, _, _, _)
Splice(val, S, old, new, i) ==
  IF i > Len(val) THEN (IF i \in S THEN new ELSE <<>>)
  ELSE IF i \in S /\ old # <<>>
       THEN new \o Splice(val, S, old, new, i + Len(old))
  ELSE (IF i \in S THEN new ELSE <<>>) \o <<val[i]>>
       \o Splice(val, S, old, new, i + 1)

\* Every occurrence replaced: the values val becomes when new is put for a
\* set of occurrences of old that do not overlap and that leaves no
\* occurrence free of them.
Replacements(val, old, new) ==
  LET Apart(S) == \A i, j \in S : i < j => i + Len(old) <= j
      Full(S) == \A i \in Occurrences(val, old) \ S : ~Apart(S \cup {i})
  IN {Splice(val, S, old, new, 1) :
        S \in {T \in SUBSET Occurrences(val, old) : Apart(T) /\ Full(T)}}

\* C34: replace_home returns a mapping with the keys of the one it was
\* given, in which every occurrence of the value of HOME is replaced by the
\* new home in every value, and the mapping it was given is as it was before
\* the call.
C34_ReplaceHomeCopies ==
  call.fn = "replace_home"
    => /\ call.out.given = call.arg.env
       /\ "HOME" \in DOMAIN call.arg.env
            => /\ call.out.raised = ""
               /\ DOMAIN call.out.ret = DOMAIN call.arg.env
               /\ \A key \in DOMAIN call.arg.env :
                    call.out.ret[key] \in
                      Replacements(call.arg.env[key], call.arg.env["HOME"],
                                   call.arg.new_home)

\* The old home occurs twice in PATH and again in the new home: both
\* occurrences are replaced, once each, and the given mapping differs from
\* the one returned.
C34_Witness ==
  /\ call.fn = "replace_home"
  /\ call.arg.env = [key \in {"HOME", "PATH"} |->
                       IF key = "HOME" THEN <<"/h">> ELSE <<"/h", "/u", "/h">>]
  /\ call.arg.new_home = <<"/h", "/w">>
  /\ call.out.ret = [key \in {"HOME", "PATH"} |->
                       IF key = "HOME" THEN <<"/h", "/w">>
                       ELSE <<"/h", "/w", "/u", "/h", "/w">>]
  /\ call.out.given # call.out.ret

\* C32: stop changes nothing on disk.  Whatever it is invoked on and however
\* it ends, the work directory, its content, the pid file and the token
\* file are afterwards what they were before; a work directory that was
\* there is still there.
C32_StopLeavesDisk ==
  last.op = "stop"
    => /\ ~last.touched
       /\ last.wasDir => dir
       /\ last.wasToken = (IF tokenFile.exists THEN tokenFile.content ELSE "")

\* A stop has signalled a process and the pid file still holds a pid.
C32_Witness ==
  /\ last.op = "stop"
  /\ last.sig # {}
  /\ dir /\ tokenFile.exists
  /\ pidFile.exists /\ pidFile.content # <<>>

\* C31: every operation that has run, however it ended, has left the
\* working directory where it was when the operation began; each change
\* into the work directory is followed by the change back, so every
\* operation of the run starts from the same directory.
C31_WorkingDirectoryRestored ==
  ~Ready
    => /\ last.cwd = "top"
       /\ Len(last.chdirs) % 2 = 0
       /\ \A i \in DOMAIN last.chdirs :
            last.chdirs[i] = (IF i % 2 = 1 THEN "work" ELSE "top")

\* A clean-up whose stop returned early from inside the work directory, for
\* want of a pid file, and whose removal raised inside it.
C31_Witness ==
  /\ last.op = "clean"
  /\ last.result = "removal_exception"
  /\ ~pidFile.exists
  /\ Ran(last.log, "stop")
  /\ last.chdirs = <<"work", "top", "work", "top">>

C33_Refusal ==
  /\ last.op = "main" /\ rev = "runner"
  /\ last.wasDir /\ ~last.wasEmpty
  /\ last.result = "Exception"
  /\ OurListeners # {}

====
